---- MODULE Spec2Model ----
(***************************************************************************)
(* A model of the two long-running scripts of freeq's pi bridge:           *)
(*   scripts/pi-inbox.py        the queue tailer and its offset file       *)
(*   scripts/pi-merge-input.py  the stdin/FIFO input multiplexer           *)
(* Files and pipes are sequences of characters; every step of the scripts  *)
(* that the operating system can interleave with another process is one    *)
(* action.                                                                 *)
(***************************************************************************)
EXTENDS Integers, Sequences, FiniteSets, TLC

----------------------------------------------------------------------------
\* Bounds of the model (not program constants).
MaxAppends == 3      \* lines the producer appends to the queue file
MaxCrashes == 1      \* kills-and-restarts of the tailer
MaxTruncs == 1       \* truncations of the queue file
MaxFaults == 1       \* injected I/O failures
MaxCharsA == 2       \* characters written to the multiplexer's stdin
MaxLinesB == 2       \* lines written to the FIFO
MaxOpens == 2        \* times a writer opens the FIFO

----------------------------------------------------------------------------
\* Characters of the queue file.  A record is the JSON object  { id }  where
\* id stands for the four fields; its text may hold U+2028, which JSON
\* allows unescaped inside a string.
NL == "\n"
LS == "u2028"
LB == "{"
RB == "}"
SP == " "
NUM == "5"
BAD == "x"
MINUS == "-"

Id(n) == "r" \o ToString(n)
Ids == {Id(n) : n \in 1..(MaxAppends + 1)}

\* One queue record as the producer writes it: one line, newline-terminated.
Record(n, sep) == <<LB, Id(n)>> \o (IF sep THEN <<LS>> ELSE <<>>) \o <<RB, NL>>

\* The marker for a file that does not exist.
NoFile == <<"ENOENT">>

\* The marker for a file that exists and cannot be opened for reading.
Unreadable == <<"EACCES">>

\* What a file holds once it is opened for appending: nothing when it had
\* to be created.
Content(file) == IF file = NoFile THEN <<>> ELSE file

----------------------------------------------------------------------------
\* Pure functions of pi-inbox.py and of the Python library calls it makes.

IsPrefix(s, t) == Len(s) <= Len(t) /\ SubSeq(t, 1, Len(s)) = s

RECURSIVE SplitOn(_, _, _)
\* The pieces of data between the characters of seps, cur being the piece
\* under construction; no empty piece is produced after a final separator.
SplitOn(data, seps, cur) ==
    IF data = <<>> THEN (IF cur = <<>> THEN <<>> ELSE <<cur>>)
    ELSE IF Head(data) \in seps THEN <<cur>> \o SplitOn(Tail(data), seps, <<>>)
    ELSE SplitOn(Tail(data), seps, Append(cur, Head(data)))

\* str.splitlines(): line boundaries are "\n" and the Unicode line
\* separators (U+2028 among them).
splitlines(data) == SplitOn(data, {NL, LS}, <<>>)

\* The characters str.strip() removes: white space, to which the line
\* boundaries belong.
Space == {SP, NL, LS}

RECURSIVE lstrip(_)
lstrip(s) == IF s # <<>> /\ Head(s) \in Space THEN lstrip(Tail(s)) ELSE s

RECURSIVE rstrip(_)
rstrip(s) ==
    IF s # <<>> /\ s[Len(s)] \in Space THEN rstrip(SubSeq(s, 1, Len(s) - 1)) ELSE s

\* str.strip()
strip(s) == rstrip(lstrip(s))

\* json.loads(line): an object, another JSON value, or JSONDecodeError.
json_loads(line) ==
    LET s == strip(line) IN
    IF Len(s) = 3 /\ s[1] = LB /\ s[2] \in Ids /\ s[3] = RB
        THEN [kind |-> "object", id |-> s[2]]
    ELSE IF Len(s) = 4 /\ s[1] = LB /\ s[2] \in Ids /\ s[3] = LS /\ s[4] = RB
        THEN [kind |-> "object", id |-> s[2]]
    ELSE IF s = <<NUM>>
        THEN [kind |-> "number", id |-> ""]
    ELSE [kind |-> "error", id |-> ""]

Digit == <<"0", "1", "2", "3", "4", "5", "6", "7", "8", "9">>

RECURSIVE str(_)
\* str(offset): the decimal text of a non-negative integer.
str(n) == IF n < 10 THEN <<Digit[n + 1]>> ELSE str(n \div 10) \o <<Digit[(n % 10) + 1]>>

DigitValue(c) == CHOOSE d \in 0..9 : Digit[d + 1] = c

RECURSIVE int(_)
\* int(text) for a non-empty text of decimal digits.
int(t) == IF Len(t) = 1 THEN DigitValue(t[1])
          ELSE 10 * int(SubSeq(t, 1, Len(t) - 1)) + DigitValue(t[Len(t)])

IsDecimal(t) == t # <<>> /\ \A i \in 1..Len(t) : \E d \in 1..10 : Digit[d] = t[i]

\* Mutant of load_offset: the state file is not read, the tailer always
\* starts at 0.
load_offset_ignored(file) == 0

\* load_offset(): int() of the stripped text, which may carry a minus sign;
\* 0 when the text is empty, and 0 for every exception (the file is
\* missing or unreadable, the text is no integer).
load_offset(file) ==
    IF file \in {NoFile, Unreadable} THEN 0
    ELSE LET t == IF strip(file) = <<>> THEN <<"0">> ELSE strip(file) IN
         IF IsDecimal(t) THEN int(t)
         ELSE IF Head(t) = MINUS /\ IsDecimal(Tail(t)) THEN 0 - int(Tail(t))
         ELSE 0

----------------------------------------------------------------------------
VARIABLES
    queue,      \* OUTBOX: the content of the queue file
    stateFile,  \* STATE: the content of the offset file, or NoFile
    tmpFile,    \* STATE.tmp, or NoFile
    pc,         \* where the tailer is in main()
    offset,     \* main's local offset
    pos,        \* the position of the open file f after the read
    lines,      \* the lines of this cycle still to process
    out,        \* stdout of the tailer: the ids of the records notified
    appends,    \* lines appended by the producer so far
    crashes,    \* kills of the tailer so far
    truncs,     \* truncations so far
    faults,     \* injected I/O failures so far
    saved,      \* the offsets passed to save_offset so far
    lastDone,   \* the offset of the last completed os.replace, -1 if none
    unsaved,    \* notifications printed since the last completed save
    crashPc,    \* pc at the last kill, "none" once a cycle has begun again
    crashOut,   \* Len(out) at the last kill
    crashDisk,  \* load_offset(stateFile) at the last kill
    lostSave,   \* a kill happened with unsaved notifications
    seen,       \* what a concurrent reader of STATE last loaded
    cycOut,     \* Len(out) when this cycle measured the file
    wasReset,   \* this cycle found the file shorter than the cursor
    end,        \* main's local end: the length this cycle measured
    atOpen,     \* what the last open of the queue file found
    loaded,     \* the state file load_offset read, until the first open
    partial,    \* the producer has written the first part of a record
    stdinPipe,  \* bytes written to stdin and not yet read
    stdinOpen,  \* the writer of stdin is still connected
    fifoPipe,   \* bytes written to the FIFO and not yet read
    fifoWriters,\* writers that have the FIFO open
    fifoHadWriter, \* the FIFO has been opened by a writer since fd_fifo was
    fifoBuf,    \* characters file_fifo has read and not yet returned
    mpc,        \* where the multiplexer is: "select" or "handle"
    ready,      \* the keys sel.select() returned, still to be handled
    mout,       \* stdout of the multiplexer: [src, ch] per character
    aSent,      \* characters written to stdin so far
    bSent,      \* lines written to the FIFO so far
    opens,      \* times a writer opened the FIFO
    eofSeen,    \* file_fifo returned EOF and no line was written since
    eofEver,    \* file_fifo has returned EOF at least once
    afterEof,   \* the lines that were the first written after an EOF
    idle,       \* the last branch of the loop that ran wrote nothing
    bHalf       \* the text of FIFO line bSent + 1 is written, its newline not

tvars == <<queue, stateFile, tmpFile, pc, offset, pos, lines, out, appends,
           crashes, truncs, faults, saved, lastDone, unsaved, crashPc,
           crashOut, crashDisk, lostSave, seen, cycOut, wasReset, end,
           atOpen, loaded, partial>>

mvars == <<stdinPipe, stdinOpen, fifoPipe, fifoWriters, fifoHadWriter, fifoBuf,
           mpc, ready, mout, aSent, bSent, opens, eofSeen, eofEver, afterEof,
           idle, bHalf>>

vars == <<tvars, mvars>>

TInit ==
    /\ queue = <<>>
    /\ stateFile = NoFile
    /\ tmpFile = NoFile
    /\ pc = "load"
    /\ offset = 0
    /\ pos = 0
    /\ lines = <<>>
    /\ out = <<>>
    /\ appends = 0
    /\ crashes = 0
    /\ truncs = 0
    /\ faults = 0
    /\ saved = {}
    /\ lastDone = -1
    /\ unsaved = 0
    /\ crashPc = "none"
    /\ crashOut = 0
    /\ crashDisk = 0
    /\ lostSave = FALSE
    /\ seen = 0
    /\ cycOut = 0
    /\ wasReset = FALSE
    /\ end = 0
    /\ atOpen = [absent |-> FALSE, offset |-> 0, state |-> NoFile, out |-> 0]
    /\ loaded = <<"none">>
    /\ partial = FALSE

\* pi-merge-input.py, lines 13-22: the FIFO is opened before any writer has
\* it open; nothing has been read.
MInit ==
    /\ stdinPipe = <<>>
    /\ stdinOpen = TRUE
    /\ fifoPipe = <<>>
    /\ fifoWriters = 0
    /\ fifoHadWriter = FALSE
    /\ fifoBuf = <<>>
    /\ mpc = "select"
    /\ ready = <<>>
    /\ mout = <<>>
    /\ aSent = 0
    /\ bSent = 0
    /\ opens = 0
    /\ eofSeen = FALSE
    /\ eofEver = FALSE
    /\ afterEof = {}
    /\ idle = FALSE
    /\ bHalf = FALSE

Init == TInit /\ MInit

hist == <<crashOut, crashDisk, lostSave>>
cyc == <<cycOut, wasReset, end, atOpen, loaded>>
env == <<appends, crashes, truncs, faults, seen, partial>>

\* main, line 29
LoadOffset ==
    /\ pc = "load"
    /\ offset' = load_offset(stateFile)
    /\ loaded' = stateFile
    /\ pc' = "open"
    /\ UNCHANGED <<mvars, queue, stateFile, tmpFile, pos, lines, out, saved, lastDone,
                   unsaved, crashPc, hist, cycOut, wasReset, end, atOpen, env>>

\* main, line 32: mode "a+" creates the file when it is missing.
OpenOutbox ==
    /\ pc = "open"
    /\ queue' = Content(queue)
    /\ atOpen' = [absent |-> queue = NoFile, offset |-> offset,
                  state |-> stateFile, out |-> Len(out)]
    /\ loaded' = <<"none">>
    /\ pc' = "seek_end"
    /\ crashPc' = "none"
    /\ UNCHANGED <<mvars, stateFile, tmpFile, offset, pos, lines, out, saved,
                   lastDone, unsaved, hist, cycOut, wasReset, end, env>>

\* main, lines 33-36
SeekEnd ==
    /\ pc = "seek_end"
    /\ offset' = IF Len(queue) < offset THEN 0 ELSE offset
    /\ pc' = "read"
    /\ end' = Len(queue)
    /\ cycOut' = Len(out)
    /\ wasReset' = (Len(queue) < offset)
    /\ UNCHANGED <<mvars, queue, stateFile, tmpFile, pos, lines, out, saved, lastDone,
                   unsaved, crashPc, hist, atOpen, loaded, env>>

\* Mutant of tell: the read does not move the position, it stays where
\* seek put it.
tell_at_seek(start, length) == start

\* f.tell() after f.seek(start) and f.read() on a file of the given length:
\* the end of the file, or start when that lies beyond the end.
tell(start, length) == IF start > length THEN start ELSE length

\* main, lines 37-40: seek(offset), read() to the end of the file as it is
\* now, and split what was read.  seek raises ValueError for a negative
\* offset, which main does not catch.
ReadData ==
    /\ pc = "read"
    /\ IF offset < 0
          THEN /\ pc' = "dead"
               /\ UNCHANGED <<lines, pos>>
          ELSE /\ lines' = splitlines(SubSeq(queue, offset + 1, Len(queue)))
               /\ pos' = tell(offset, Len(queue))
               /\ pc' = "lines"
    /\ UNCHANGED <<mvars, queue, stateFile, tmpFile, offset, out, saved, lastDone,
                   unsaved, crashPc, hist, cyc, env>>

\* main, lines 40-51: one iteration of the for loop.
ProcessLine ==
    /\ pc = "lines"
    /\ lines # <<>>
    /\ LET line == Head(lines)
           entry == json_loads(line)
       IN  IF strip(line) = <<>> \/ entry.kind = "error"
               THEN /\ lines' = Tail(lines)
                    /\ UNCHANGED <<pc, out, unsaved>>
           ELSE IF entry.kind = "object"
               THEN /\ out' = Append(out, entry.id)
                    /\ unsaved' = unsaved + 1
                    /\ lines' = Tail(lines)
                    /\ UNCHANGED pc
           ELSE \* entry.get on a value that is no dict: AttributeError
                    /\ pc' = "dead"
                    /\ lines' = <<>>
                    /\ UNCHANGED <<out, unsaved>>
    /\ UNCHANGED <<mvars, queue, stateFile, tmpFile, offset, pos, saved, lastDone,
                   crashPc, hist, cyc, env>>

\* main, lines 52-53: offset = f.tell(); save_offset(offset) is entered.
Tell ==
    /\ pc = "lines"
    /\ lines = <<>>
    /\ offset' = pos
    /\ saved' = saved \cup {pos}
    /\ pc' = "save_open"
    /\ UNCHANGED <<mvars, queue, stateFile, tmpFile, pos, lines, out, lastDone,
                   unsaved, crashPc, hist, cyc, env>>

\* save_offset, line 23: open(tmp, "w") creates or empties STATE.tmp.
SaveOpenTmp ==
    /\ pc = "save_open"
    /\ tmpFile' = <<>>
    /\ pc' = "save_write"
    /\ UNCHANGED <<mvars, queue, stateFile, offset, pos, lines, out, saved, lastDone,
                   unsaved, crashPc, hist, cyc, env>>

\* save_offset, line 24: the text reaches STATE.tmp one character at a time.
SaveWriteTmp ==
    /\ pc = "save_write"
    /\ Len(tmpFile) < Len(str(offset))
    /\ tmpFile' = Append(tmpFile, str(offset)[Len(tmpFile) + 1])
    /\ UNCHANGED <<mvars, queue, stateFile, pc, offset, pos, lines, out, saved,
                   lastDone, unsaved, crashPc, hist, cyc, env>>

\* What os.replace(tmp, STATE) leaves in <<STATE, STATE.tmp>>.
Replace(tmp, state) == <<tmp, NoFile>>

\* Mutant of Flushed: os.replace is called inside the with block, before
\* the text has been flushed to STATE.tmp.
ReplaceInsideWith == TRUE

\* save_offset, lines 23-24: the with block has written str(offset) and
\* closed STATE.tmp before line 25 runs.
Flushed == tmpFile = str(offset)

\* save_offset, line 25
SaveReplace ==
    /\ pc = "save_write"
    /\ Flushed
    /\ stateFile' = Replace(tmpFile, stateFile)[1]
    /\ tmpFile' = Replace(tmpFile, stateFile)[2]
    /\ lastDone' = offset
    /\ unsaved' = 0
    /\ pc' = "sleep"
    /\ UNCHANGED <<mvars, queue, offset, pos, lines, out, saved, crashPc, hist, cyc, env>>

\* main, line 56
Sleep ==
    /\ pc = "sleep"
    /\ pc' = "open"
    /\ UNCHANGED <<mvars, queue, stateFile, tmpFile, offset, pos, lines, out, saved,
                   lastDone, unsaved, crashPc, hist, cyc, env>>

Tailer ==
    \/ LoadOffset
    \/ OpenOutbox
    \/ SeekEnd
    \/ ReadData
    \/ ProcessLine
    \/ Tell
    \/ SaveOpenTmp
    \/ SaveWriteTmp
    \/ SaveReplace
    \/ Sleep

----------------------------------------------------------------------------
\* The environment of the tailer.

\* The producer appends one whole record.
AppendRecord ==
    /\ appends < MaxAppends
    /\ \E sep \in BOOLEAN : queue' = Content(queue) \o Record(appends + 1, sep)
    /\ appends' = appends + 1
    /\ UNCHANGED <<mvars, stateFile, tmpFile, pc, offset, pos, lines, out, saved,
                   lastDone, unsaved, crashPc, hist, cyc, crashes, truncs, faults, seen, partial>>

\* The tailer is killed and started again: main begins at line 29.
Crash ==
    /\ crashes < MaxCrashes
    /\ pc # "load"
    /\ crashes' = crashes + 1
    /\ crashPc' = pc
    /\ crashOut' = Len(out)
    /\ crashDisk' = load_offset(stateFile)
    /\ lostSave' = (lostSave \/ unsaved > 0)
    /\ unsaved' = 0
    /\ pc' = "load"
    /\ offset' = 0
    /\ pos' = 0
    /\ lines' = <<>>
    /\ wasReset' = FALSE
    /\ end' = 0
    /\ UNCHANGED <<mvars, queue, stateFile, tmpFile, out, saved, lastDone, appends,
                   truncs, faults, seen, partial, cycOut, atOpen, loaded>>

\* The lines a producer that keeps no discipline may append: a record, a
\* blank line, a line of spaces, a line that is no JSON, a JSON number.
AnyLine(n) ==
    {Record(n, FALSE), Record(n, TRUE), <<NL>>, <<SP, NL>>, <<BAD, NL>>, <<NUM, NL>>}

AppendLine ==
    /\ appends < MaxAppends
    /\ \E l \in AnyLine(appends + 1) : queue' = Content(queue) \o l
    /\ appends' = appends + 1
    /\ UNCHANGED <<mvars, stateFile, tmpFile, pc, offset, pos, lines, out, saved,
                   lastDone, unsaved, crashPc, hist, cyc, crashes, truncs, faults, seen, partial>>

\* The queue file is cut down to a shorter length (rotation, truncation).
Truncate ==
    /\ truncs < MaxTruncs
    /\ \E n \in 0..(Len(queue) - 1) : queue' = SubSeq(queue, 1, n)
    /\ truncs' = truncs + 1
    /\ UNCHANGED <<mvars, stateFile, tmpFile, pc, offset, pos, lines, out, saved,
                   lastDone, unsaved, crashPc, hist, cyc, appends, crashes, faults, seen,
                   partial>>

\* The queue file is removed while the tailer does not have it open.
DeleteQueue ==
    /\ truncs < MaxTruncs
    /\ pc \in {"load", "open", "sleep"}
    /\ queue # NoFile
    /\ queue' = NoFile
    /\ truncs' = truncs + 1
    /\ UNCHANGED <<mvars, stateFile, tmpFile, pc, offset, pos, lines, out, saved,
                   lastDone, unsaved, crashPc, hist, cyc, appends, crashes, faults, seen,
                   partial>>

\* What the state file may be found to hold when the tailer starts: an
\* offset as save_offset writes it, an offset with white space around it,
\* an offset beyond the end of the queue file, nothing, white space, text
\* that is no integer, a negative integer; or it is gone or unreadable.
StateContents ==
    {NoFile, Unreadable, <<"4">>, <<"4", NL>>, <<SP, "0">>, <<"1", "2">>, <<>>,
     <<SP>>, <<BAD>>, <<"2", BAD>>, <<MINUS, "4">>}

\* The state file as an earlier run or another program left it, found
\* when the tailer starts: load_offset is the only reader of it.
WriteState ==
    /\ faults < MaxFaults
    /\ pc = "load"
    /\ \E c \in StateContents : stateFile' = c
    /\ faults' = faults + 1
    /\ UNCHANGED <<mvars, queue, tmpFile, pc, offset, pos, lines, out, saved, lastDone,
                   unsaved, crashPc, hist, cyc, appends, crashes, truncs, seen, partial>>

\* Another process loads the state file.
ReaderLoad ==
    /\ seen' = load_offset(stateFile)
    /\ UNCHANGED <<mvars, queue, stateFile, tmpFile, pc, offset, pos, lines, out,
                   saved, lastDone, unsaved, crashPc, hist, cyc, appends, crashes,
                   truncs, faults, partial>>

\* Where an exception raised inside the try block of main (lines 31-55)
\* takes the tailer: only FileNotFoundError is caught.
Raise(exc) == IF exc = "FileNotFoundError" THEN "sleep" ELSE "dead"

\* The exceptions the system calls of one cycle can raise.
OpenErrors == {"FileNotFoundError", "PermissionError"}
ReadErrors == {"UnicodeDecodeError", "OSError"}
SaveErrors == {"FileNotFoundError", "PermissionError", "OSError"}

\* A system call of the cycle fails: open (line 32), read (line 38), or the
\* open, write or replace of save_offset (lines 23-25).
Fault ==
    /\ faults < MaxFaults
    /\ \/ pc = "open" /\ \E e \in OpenErrors : pc' = Raise(e)
       \/ pc = "read" /\ \E e \in ReadErrors : pc' = Raise(e)
       \/ pc \in {"save_open", "save_write"} /\ \E e \in SaveErrors : pc' = Raise(e)
    /\ faults' = faults + 1
    /\ lines' = <<>>
    /\ UNCHANGED <<mvars, queue, stateFile, tmpFile, offset, pos, out, saved, lastDone,
                   unsaved, crashPc, hist, cyc, appends, crashes, truncs, seen,
                   partial>>

\* The specifications of the tailer, by what its environment may do.
SpecAppend == Init /\ [][Tailer \/ AppendRecord]_vars

SpecCrash == Init /\ [][Tailer \/ AppendRecord \/ Crash]_vars

SpecTrunc == Init /\ [][Tailer \/ AppendRecord \/ Truncate]_vars

SpecAny == Init /\ [][Tailer \/ AppendLine]_vars

\* SpecAny with a tailer that keeps taking steps while it can (the sleep
\* of line 56 ends, no call of a cycle blocks).
SpecAnyFair == Init /\ [][Tailer \/ AppendLine]_vars /\ WF_vars(Tailer)

SpecSave == Init /\ [][Tailer \/ AppendRecord \/ Crash \/ ReaderLoad]_vars

SpecFault == Init /\ [][Tailer \/ AppendRecord \/ Fault]_vars

SpecCursor == Init /\ [][Tailer \/ AppendRecord \/ Truncate \/ Crash]_vars

SpecLoad == Init /\ [][Tailer \/ AppendRecord \/ WriteState]_vars

SpecAbsent == Init /\ [][Tailer \/ AppendRecord \/ DeleteQueue]_vars

\* The same environments with a producer whose lines hold neither a Unicode
\* line separator nor a JSON value that is no object.  Under these the
\* formulas of C1 and C5 (SpecAppendPlain), C2 and C3 (SpecCrashPlain) and
\* C4 (SpecTruncPlain) hold, which places their failures in splitlines and
\* in entry.get alone.
AppendPlain ==
    /\ appends < MaxAppends
    /\ \E l \in {Record(appends + 1, FALSE), <<NL>>, <<SP, NL>>, <<BAD, NL>>} :
          queue' = Content(queue) \o l
    /\ appends' = appends + 1
    /\ UNCHANGED <<mvars, stateFile, tmpFile, pc, offset, pos, lines, out, saved,
                   lastDone, unsaved, crashPc, hist, cyc, crashes, truncs, faults, seen, partial>>

\* A producer whose records reach the file whole or in two write() calls:
\* the opening brace and the fields first, the closing brace and the
\* newline later.
AppendPart ==
    /\ appends < MaxAppends
    /\ \/ /\ ~partial
          /\ queue' = Content(queue) \o Record(appends + 1, FALSE)
          /\ appends' = appends + 1
          /\ UNCHANGED partial
       \/ /\ ~partial
          /\ queue' = Content(queue) \o <<LB, Id(appends + 1)>>
          /\ partial' = TRUE
          /\ UNCHANGED appends
       \/ /\ partial
          /\ queue' = queue \o <<RB, NL>>
          /\ partial' = FALSE
          /\ appends' = appends + 1
    /\ UNCHANGED <<mvars, stateFile, tmpFile, pc, offset, pos, lines, out, saved,
                   lastDone, unsaved, crashPc, hist, cyc, crashes, truncs, faults, seen>>

SpecPart == Init /\ [][Tailer \/ AppendPart]_vars

SpecAppendPlain == Init /\ [][Tailer \/ AppendPlain]_vars

SpecCrashPlain == Init /\ [][Tailer \/ AppendPlain \/ Crash]_vars

SpecTruncPlain == Init /\ [][Tailer \/ AppendPlain \/ Truncate]_vars

\* The queue file is cut down while the tailer sleeps between two polls.
TruncateBetweenPolls == pc = "sleep" /\ Truncate

SpecRotate == Init /\ [][Tailer \/ AppendPlain \/ TruncateBetweenPolls]_vars

----------------------------------------------------------------------------
\* The queue records of a content, as the file format defines them: one
\* JSON object per newline-terminated line.
RECURSIVE ObjectIds(_)
ObjectIds(ls) ==
    IF ls = <<>> THEN <<>>
    ELSE (IF json_loads(Head(ls)).kind = "object"
            THEN <<json_loads(Head(ls)).id>> ELSE <<>>) \o ObjectIds(Tail(ls))

ValidRecords(content) == ObjectIds(SplitOn(content, {NL}, <<>>))

\* A content holds a blank line or a line that is no JSON.
HasMalformed(content) ==
    \E i \in 1..Len(SplitOn(content, {NL}, <<>>)) :
        LET l == SplitOn(content, {NL}, <<>>)[i] IN
        strip(l) = <<>> \/ json_loads(l).kind = "error"

Upto(n) == SubSeq(queue, 1, n)
From(n) == SubSeq(queue, n + 1, Len(queue))
Count(s, x) == Cardinality({i \in 1..Len(s) : s[i] = x})
Elems(s) == {s[i] : i \in 1..Len(s)}

\* What the tailer has printed since its last restart.
SinceCrash == SubSeq(out, crashOut + 1, Len(out))
\* What the tailer has printed in the current cycle.
ThisCycle == SubSeq(out, cycOut + 1, Len(out))

----------------------------------------------------------------------------
\* C1: with a producer that only appends whole newline-terminated records
\* (no truncation, no kill), every valid record of the file is notified
\* exactly once and in file order: the output is always a prefix of the
\* file's records, and at the end of a cycle it is exactly the records up to
\* the cursor.
C1_EveryRecordOnceInOrder ==
    /\ IsPrefix(out, ValidRecords(queue))
    /\ pc = "sleep" => out = ValidRecords(Upto(offset))

\* C2: after a kill that found every printed record covered by the persisted
\* cursor, the restarted tailer prints no record it printed before the kill
\* and prints each record after the persisted cursor exactly once, in order.
C2_ResumeFromPersistedCursor ==
    (crashes >= 1 /\ ~lostSave /\ crashOut > 0 /\ crashDisk > 0) =>
        /\ Elems(SinceCrash) \cap Elems(SubSeq(out, 1, crashOut)) = {}
        /\ IsPrefix(SinceCrash, ValidRecords(From(crashDisk)))
        /\ pc = "sleep" => SinceCrash = ValidRecords(SubSeq(queue, crashDisk + 1, offset))

\* C3: after a kill between the printing of a cycle's records and the
\* replace of the state file, no record after the persisted cursor is lost,
\* no record before it is printed again, and a record is printed at most
\* once more per restart.
C3_RedeliveryAfterLostSave ==
    (crashes >= 1 /\ lostSave) =>
        /\ IsPrefix(SinceCrash, ValidRecords(From(crashDisk)))
        /\ pc = "sleep" => SinceCrash = ValidRecords(SubSeq(queue, crashDisk + 1, offset))
        /\ Elems(SinceCrash) \cap Elems(ValidRecords(Upto(crashDisk))) = {}
        /\ \A r \in Elems(out) : Count(out, r) <= 1 + crashes

\* C4: a cycle that finds the file shorter than the cursor starts again at
\* offset 0, prints every valid record of the file it read, and persists the
\* end offset of that read.
C4_TruncationRecovery ==
    (wasReset /\ pc \in {"read", "lines", "save_open", "save_write"}) => 
        /\ pc = "read" => offset = 0
        /\ pc # "read" => IsPrefix(ThisCycle, ValidRecords(Upto(pos)))
        /\ pc \in {"save_open", "save_write"} =>
              /\ ThisCycle = ValidRecords(Upto(pos))
              /\ offset = pos

\* C5: whatever the file holds, a blank line or a line that is no JSON is
\* skipped alone: the tailer keeps running, every valid record around the
\* skipped line is printed in file order, and the cursor moves past it.
C5_MalformedLinesSkipped ==
    HasMalformed(queue) =>
        /\ pc # "dead"
        /\ IsPrefix(out, ValidRecords(queue))
        /\ pc = "sleep" => (out = ValidRecords(Upto(offset)) /\ offset = pos)

\* C10: no failure of a system call in steady state (opening or reading the
\* queue file, writing or renaming the cursor file) ends the tailer's loop.
C10_NoErrorEndsTheLoop == pc # "dead"

----------------------------------------------------------------------------
\* pi-merge-input.py.  What the writers send is fixed, so that what arrives
\* can be compared with it: stdin carries a1 \n a2 \n ..., the FIFO carries
\* the lines b1 \n, b2 \n, ...

AChar(i) == IF i % 2 = 1 THEN "a" \o ToString((i + 1) \div 2) ELSE NL
AStream(from, to) == [i \in 1..(to - from + 1) |-> AChar(from + i - 1)]

RECURSIVE BStream(_, _)
BStream(from, to) ==
    IF from > to THEN <<>> ELSE <<"b" \o ToString(from), NL>> \o BStream(from + 1, to)

Tag(src, chars) == [i \in 1..Len(chars) |-> [src |-> src, ch |-> chars[i]]]

HasNL(s) == \E i \in 1..Len(s) : s[i] = NL
FirstNL(s) == CHOOSE i \in 1..Len(s) : s[i] = NL /\ \A j \in 1..(i - 1) : s[j] # NL

\* Mutant of readline: the line returned is not consumed, it stays buffered
\* in front of the rest.
readline_peek(buf) ==
    IF HasNL(buf)
        THEN [line |-> SubSeq(buf, 1, FirstNL(buf)), rest |-> buf]
        ELSE [line |-> buf, rest |-> <<>>]

\* file_fifo.readline() on the characters at hand: the first line with its
\* newline, or everything when no newline is there; the rest stays buffered.
readline(buf) ==
    IF HasNL(buf)
        THEN [line |-> SubSeq(buf, 1, FirstNL(buf)),
              rest |-> SubSeq(buf, FirstNL(buf) + 1, Len(buf))]
        ELSE [line |-> buf, rest |-> <<>>]

\* select(): stdin is readable when bytes wait or its writer has closed.
StdinReadable == stdinPipe # <<>> \/ ~stdinOpen

\* Mutant of FifoReadable: the first end of file is final, the FIFO is not
\* watched after it.
FifoReadableUntilEof ==
    ~eofEver /\ (fifoPipe # <<>> \/ (fifoWriters = 0 /\ fifoHadWriter))

\* select(): the FIFO's descriptor is readable when bytes wait in the pipe,
\* or when its last writer has closed (end of file until a writer opens it
\* again).  What file_fifo holds buffered is not seen by select().
FifoReadable == fifoPipe # <<>> \/ (fifoWriters = 0 /\ fifoHadWriter)

ReadySet == (IF StdinReadable THEN {"stdin"} ELSE {}) \cup
            (IF FifoReadable THEN {"fifo"} ELSE {})

Orders(S) == {o \in [1..Cardinality(S) -> S] : \A i, j \in 1..Cardinality(S) : o[i] = o[j] => i = j}

\* line 25: sel.select() blocks until a descriptor is readable.
Select ==
    /\ mpc = "select"
    /\ ReadySet # {}
    /\ \E o \in Orders(ReadySet) : ready' = o
    /\ mpc' = "handle"
    /\ UNCHANGED <<tvars, stdinPipe, stdinOpen, fifoPipe, fifoWriters, fifoHadWriter,
                   fifoBuf, mout, aSent, bSent, opens, eofSeen, eofEver, afterEof,
                   idle, bHalf>>

AfterKey == IF Tail(ready) = <<>> THEN "select" ELSE "handle"

\* lines 26-30: everything stdin has is read and written out as it is.
HandleStdin ==
    /\ mpc = "handle"
    /\ Head(ready) = "stdin"
    /\ mout' = mout \o Tag("A", stdinPipe)
    /\ stdinPipe' = <<>>
    /\ idle' = (stdinPipe = <<>>)
    /\ ready' = Tail(ready)
    /\ mpc' = AfterKey
    /\ UNCHANGED <<tvars, stdinOpen, fifoPipe, fifoWriters, fifoHadWriter, fifoBuf,
                   aSent, bSent, opens, eofSeen, eofEver, afterEof, bHalf>>

\* lines 31-37: one readline() of file_fifo, which reads the descriptor only
\* when it holds no complete line, and then takes all the pipe has.
HandleFifo ==
    /\ mpc = "handle"
    /\ Head(ready) = "fifo"
    /\ LET fill == ~HasNL(fifoBuf)
           got == readline(IF fill THEN fifoBuf \o fifoPipe ELSE fifoBuf)
       IN  /\ fifoPipe' = IF fill THEN <<>> ELSE fifoPipe
           /\ fifoBuf' = got.rest
           /\ mout' = IF got.line = <<>> THEN mout
                      ELSE mout \o Tag("B", got.line) \o
                           (IF got.line[Len(got.line)] # NL THEN Tag("mux", <<NL>>) ELSE <<>>)
           /\ eofSeen' = (eofSeen \/ (got.line = <<>> /\ fifoWriters = 0))
           /\ eofEver' = (eofEver \/ (got.line = <<>> /\ fifoWriters = 0))
           /\ idle' = (got.line = <<>>)
    /\ ready' = Tail(ready)
    /\ mpc' = AfterKey
    /\ UNCHANGED <<tvars, stdinPipe, stdinOpen, fifoWriters, fifoHadWriter,
                   aSent, bSent, opens, afterEof, bHalf>>

Mux == Select \/ HandleStdin \/ HandleFifo

\* The writer of stdin sends the next one or two characters.
WriteStdin ==
    /\ stdinOpen
    /\ \E n \in 1..2 :
          /\ aSent + n <= MaxCharsA
          /\ stdinPipe' = stdinPipe \o AStream(aSent + 1, aSent + n)
          /\ aSent' = aSent + n
    /\ UNCHANGED <<tvars, stdinOpen, fifoPipe, fifoWriters, fifoHadWriter, fifoBuf,
                   mpc, ready, mout, bSent, opens, eofSeen, eofEver, afterEof,
                   idle, bHalf>>

CloseStdin ==
    /\ stdinOpen
    /\ stdinOpen' = FALSE
    /\ UNCHANGED <<tvars, stdinPipe, fifoPipe, fifoWriters, fifoHadWriter, fifoBuf,
                   mpc, ready, mout, aSent, bSent, opens, eofSeen, eofEver, afterEof,
                   idle, bHalf>>

\* A writer opens the FIFO.
OpenFifo ==
    /\ fifoWriters = 0
    /\ opens < MaxOpens
    /\ fifoWriters' = 1
    /\ fifoHadWriter' = TRUE
    /\ opens' = opens + 1
    /\ UNCHANGED <<tvars, stdinPipe, stdinOpen, fifoPipe, fifoBuf, mpc, ready, mout,
                   aSent, bSent, eofSeen, eofEver, afterEof, idle, bHalf>>

\* The writer sends the next one or two whole lines in one write().
WriteFifo ==
    /\ fifoWriters = 1
    /\ ~bHalf
    /\ \E n \in 1..2 :
          /\ bSent + n <= MaxLinesB
          /\ fifoPipe' = fifoPipe \o BStream(bSent + 1, bSent + n)
          /\ bSent' = bSent + n
    /\ afterEof' = IF eofSeen THEN afterEof \cup {bSent + 1} ELSE afterEof
    /\ eofSeen' = FALSE
    /\ UNCHANGED <<tvars, stdinPipe, stdinOpen, fifoWriters, fifoHadWriter, fifoBuf,
                   mpc, ready, mout, aSent, opens, eofEver, idle, bHalf>>

\* The writer sends the next line in two write() calls: its text, and
\* later its newline.
WriteFifoPart ==
    /\ fifoWriters = 1
    /\ bSent < MaxLinesB
    /\ IF bHalf
          THEN /\ fifoPipe' = fifoPipe \o <<NL>>
               /\ bSent' = bSent + 1
          ELSE /\ fifoPipe' = fifoPipe \o <<BStream(bSent + 1, bSent + 1)[1]>>
               /\ UNCHANGED bSent
    /\ bHalf' = ~bHalf
    /\ afterEof' = IF eofSeen /\ ~bHalf THEN afterEof \cup {bSent + 1} ELSE afterEof
    /\ eofSeen' = FALSE
    /\ UNCHANGED <<tvars, stdinPipe, stdinOpen, fifoWriters, fifoHadWriter, fifoBuf,
                   mpc, ready, mout, aSent, opens, eofEver, idle>>

\* The writer closes the FIFO.
CloseFifo ==
    /\ fifoWriters = 1
    /\ fifoWriters' = 0
    /\ UNCHANGED <<tvars, stdinPipe, stdinOpen, fifoPipe, fifoHadWriter, fifoBuf,
                   mpc, ready, mout, aSent, bSent, opens, eofSeen, eofEver, afterEof,
                   idle, bHalf>>

Writers == WriteStdin \/ CloseStdin \/ OpenFifo \/ WriteFifo \/ CloseFifo

\* The multiplexer runs whenever select() can return.
SpecMux == Init /\ [][Mux \/ Writers]_vars /\ WF_vars(Mux)

\* The same with a FIFO writer that may also send a line in two parts.
SpecMuxPart == Init /\ [][Mux \/ Writers \/ WriteFifoPart]_vars /\ WF_vars(Mux)

RECURSIVE Sel(_, _)
\* The characters of an output that carry the tag src.
Sel(o, src) ==
    IF o = <<>> THEN <<>>
    ELSE (IF Head(o).src = src THEN <<Head(o).ch>> ELSE <<>>) \o Sel(Tail(o), src)

OutFrom(src) == Sel(mout, src)
OutLinesB == Count(OutFrom("B"), NL)

----------------------------------------------------------------------------
\* C6: the state file is at every moment absent or the complete decimal text
\* of an offset that was passed to save_offset, a concurrent reader loads
\* nothing else, and a kill inside save_offset (the temporary file written
\* or not, the replace not done) leaves the prior offset in the state file,
\* which the restarted tailer loads.
C6_AtomicPersistence ==
    /\ stateFile = NoFile \/ \E o \in saved : stateFile = str(o)
    /\ seen \in saved \cup {0}
    /\ stateFile = (IF lastDone = -1 THEN NoFile ELSE str(lastDone))
    /\ (crashPc \in {"save_open", "save_write"} /\ pc = "open") =>
          offset = (IF lastDone = -1 THEN 0 ELSE lastDone)

\* C6 happens: the tailer was killed with a complete temporary file holding
\* a newer offset, and has loaded the prior, non-zero offset again.
C6_Witness ==
    /\ crashPc = "save_write"
    /\ pc = "open"
    /\ stateFile # NoFile
    /\ \E o \in saved : o > lastDone /\ tmpFile = str(o)
    /\ offset = lastDone
    /\ offset > 0

\* C7: what the output holds of each source is, at every moment, a prefix
\* of what was written to that source.
C7_OrderWithinSource ==
    /\ IsPrefix(OutFrom("A"), AStream(1, aSent))
    /\ IsPrefix(OutFrom("B"), BStream(1, bSent))

\* C7 happens: output of the FIFO, then of stdin, then of the FIFO again,
\* with two lines of the FIFO and two characters of stdin delivered.
C7_Witness ==
    /\ OutLinesB >= 2
    /\ Len(OutFrom("A")) >= 2
    /\ \E i, j, k \in 1..Len(mout) :
          i < j /\ j < k /\ mout[i].src = "B" /\ mout[j].src = "A" /\ mout[k].src = "B"

\* C8: every line written to the FIFO and every character written to stdin
\* is eventually written to the output.
C8_EveryLineDelivered ==
    /\ \A k \in 1..MaxLinesB : (bSent >= k) ~> (OutLinesB >= k)
    /\ \A k \in 1..MaxCharsA : (aSent >= k) ~> (Len(OutFrom("A")) >= k)

\* C9: the first line a writer sends after the reader has met end of file
\* on the FIFO is eventually written to the output.
C9_LineAfterReopenDelivered ==
    \A k \in 1..MaxLinesB : (k \in afterEof) ~> (OutLinesB >= k)

\* C9 happens: a line written after an end of file is in the output.
C9_Witness == \E k \in afterEof : OutLinesB >= k /\ opens >= 2

----------------------------------------------------------------------------
\* C11: a cycle that finds no queue file, while a cursor is in memory and
\* persisted, prints nothing and leaves the cursor in memory and the state
\* file as they were when the cycle began.
C11_AbsentQueueSkipsCycle ==
    (/\ atOpen.absent
     /\ atOpen.offset > 0
     /\ atOpen.state # NoFile
     /\ pc \in {"seek_end", "read", "lines", "save_open", "save_write", "sleep"}) =>
        /\ Len(out) = atOpen.out
        /\ offset = atOpen.offset
        /\ stateFile = atOpen.state

\* C12: load_offset always returns: the offset whose decimal text the state
\* file holds, and 0 when the state file is missing, unreadable, empty or
\* holds text that is no integer; the tailer begins its first cycle with
\* that value as its cursor.
C12_LoadNeverRaises ==
    /\ pc = "load" => ENABLED LoadOffset
    /\ (pc = "open" /\ loaded # <<"none">>) =>
          /\ \A n \in 0..99 : loaded = str(n) => offset = n
          /\ loaded \in {NoFile, Unreadable, <<>>} => offset = 0
          /\ (loaded \notin {NoFile, Unreadable} /\ BAD \in Elems(loaded)) => offset = 0

\* C12 happens: the tailer has found the offset 4 in the state file and
\* begins its first cycle with it, a record being in the queue file.
C12_Witness ==
    /\ pc = "open"
    /\ loaded = <<"4">>
    /\ offset = 4
    /\ Len(queue) >= 4

C14_CursorInvariant ==
    /\ [](offset >= 0 /\ pos >= 0)
    /\ [][(pc = "read" /\ pc' = "lines") => pos' <= Len(queue')]_vars
    /\ [][truncs' = 0 => load_offset(stateFile') >= load_offset(stateFile)]_vars

\* What holds of C14 under SpecCursor (appends, truncations, kills): its
\* first and third part, and its second part for the cycles of a file
\* that has not been cut down.
C14_CursorInvariantAppendOnly ==
    /\ [](offset >= 0 /\ pos >= 0)
    /\ [][(truncs' = 0 /\ pc = "read" /\ pc' = "lines") => pos' <= Len(queue')]_vars
    /\ [][truncs' = 0 => load_offset(stateFile') >= load_offset(stateFile)]_vars

\* select() has nothing to report: the loop is blocked at line 25.
Blocked == mpc = "select" /\ ReadySet = {}

\* C15: the multiplexer does not poll: from no state on does the loop go
\* round for ever with every branch it runs writing nothing; again and
\* again it is blocked in select() or has just written something.
C15_NeverBusyPolls == []<>(Blocked \/ ~idle)

\* The source an output character belongs to; the newline the multiplexer
\* adds belongs to the FIFO line it ends.
Origin(c) == IF c.src = "A" THEN "A" ELSE "B"

\* C16: the characters of one newline-terminated output line come from one
\* source.
C16_LinesFromOneSource ==
    \A i, j, k \in 1..Len(mout) :
        (/\ i < j /\ j <= k
         /\ mout[k].ch = NL
         /\ \A n \in i..(k - 1) : mout[n].ch # NL) =>
            Origin(mout[i]) = Origin(mout[j])

RECURSIVE Without(_, _)
\* The characters of an output that do not carry the tag src.
Without(o, src) ==
    IF o = <<>> THEN <<>>
    ELSE (IF Head(o).src # src THEN <<Head(o).ch>> ELSE <<>>) \o Without(Tail(o), src)

\* C20: the output lines that are not of stdin are the lines written to
\* the FIFO, each once and whole: with the newlines the multiplexer adds,
\* the output is a prefix of what was written.
C20_FifoLineNotSplit == IsPrefix(Without(mout, "A"), BStream(1, MaxLinesB))

\* C17: what a cycle reads ends at the end of a line, and every record the
\* producer has completed is printed exactly once: the output is a prefix
\* of the file's records, and a cycle that ends at the end of a file of
\* whole records has printed them all.
C17_NoPartialRecordRead ==
    /\ pc \in {"lines", "save_open", "save_write", "sleep"} =>
          (pos = 0 \/ queue[pos] = NL)
    /\ IsPrefix(out, ValidRecords(queue))
    /\ (pc = "sleep" /\ ~partial /\ offset = Len(queue)) => out = ValidRecords(queue)

\* C18: once the file has been cut down between two polls and written
\* again, a cycle that has read the file to position pos has left no valid
\* record before pos unprinted.
C18_NoRecordSkippedAfterRotation ==
    (truncs >= 1 /\ pc \in {"save_open", "save_write"}) =>
        Elems(ValidRecords(Upto(pos))) \subseteq Elems(out)

\* C19: whatever lines the producer has appended when it stops, the tailer
\* comes to stay in a state where it still runs, the persisted cursor is
\* the length of the queue file, and (the file holding no Unicode line
\* separator, see C1) the output is the file's object records, one
\* notification each.
C19_TailerProgress ==
    <>[](/\ pc # "dead"
         /\ load_offset(stateFile) = Len(queue)
         /\ LS \notin Elems(queue) => out = ValidRecords(queue))

====
